---- MODULE Spec2Model ----
(***************************************************************************)
(* Document-to-audio citation pipeline of my_app/pdf_processor/process.py. *)
(*                                                                         *)
(* Stage 2 (prepare_tts_chunks_with_citations) is a synchronous function   *)
(* of the raw extraction cache; it is modelled as an operator that folds   *)
(* over pages, blocks and sentences exactly as the loops of the source do. *)
(* Stage 3 (generate_audio_streaming) is modelled as a state machine over  *)
(* the files it reads and writes, the lookup (get_citation_at_timestamp)   *)
(* as an operator of the CitationManifest and the timestamp, and the       *)
(* orchestration (run_full_pipeline) as a state machine that calls the     *)
(* three stages on one PDF file name.  The endpoints get_citation and,     *)
(* from my_app/audio_server.py, get_audiobook_status are operators of the  *)
(* files they read, and a second background task on the same book runs     *)
(* its code from await to await.                                           *)
(*                                                                         *)
(* Text is a sequence of one-character strings.  Times are the rationals   *)
(* n / AVG_CHARS_PER_SECOND and are stored as the numerator n: the source  *)
(* computes est_duration = len(chunk_text) / AVG_CHARS_PER_SECOND, and the *)
(* only arithmetic it does on times afterwards is addition of such values. *)
(* Where the source stores the same float expression twice (end_time of a  *)
(* chunk and the accumulator that becomes the next start_time), the two    *)
(* stored values are the same float, as they are the same number here.     *)
(***************************************************************************)
EXTENDS Integers, Sequences, FiniteSets, TLC

\* ------------------------------------------------------------------------
\* Bounds of the model
\* ------------------------------------------------------------------------

\* Longest text block drawn as input (characters).
MaxBlockLen == 4

\* The max_chars argument of prepare_tts_chunks_with_citations (default 400
\* in the source), scaled down to the block lengths drawn here.
max_chars == 5

\* ------------------------------------------------------------------------
\* Text
\* ------------------------------------------------------------------------

Chars == {"a", ".", " "}

IsSpace(c) == c = " "

IsPunct(c) == c \in {".", "!", "?"}

RECURSIVE LStrip(_)
LStrip(s) ==
    IF s # << >> /\ IsSpace(Head(s)) THEN LStrip(Tail(s)) ELSE s

RECURSIVE RStrip(_)
RStrip(s) ==
    IF s # << >> /\ IsSpace(s[Len(s)]) THEN RStrip(SubSeq(s, 1, Len(s) - 1)) ELSE s

\* str.strip()
Strip(s) == RStrip(LStrip(s))

\* First index >= i of text that holds no whitespace (Len(text)+1 if none):
\* the end of the greedy \s+ match that starts at i.
RECURSIVE SkipSpaces(_, _)
SkipSpaces(text, i) ==
    IF i <= Len(text) /\ IsSpace(text[i]) THEN SkipSpaces(text, i + 1) ELSE i

\* re.split(r'(?<=[.!?])\s+', text), scanning from index i with the current
\* piece starting at index start: a separator is a maximal run of whitespace
\* whose first character directly follows '.', '!' or '?'.
RECURSIVE SplitFrom(_, _, _)
SplitFrom(text, i, start) ==
    IF i > Len(text)
    THEN << SubSeq(text, start, Len(text)) >>
    ELSE IF i > 1 /\ IsSpace(text[i]) /\ IsPunct(text[i - 1])
         THEN LET j == SkipSpaces(text, i)
              IN  << SubSeq(text, start, i - 1) >> \o SplitFrom(text, j, j)
         ELSE SplitFrom(text, i + 1, start)

SplitSentences(block_text) == SplitFrom(block_text, 1, 1)

\* ' '.join(parts)
RECURSIVE JoinSpace(_)
JoinSpace(parts) ==
    IF parts = << >> THEN << >>
    ELSE IF Len(parts) = 1 THEN parts[1]
    ELSE parts[1] \o << " " >> \o JoinSpace(Tail(parts))

\* ------------------------------------------------------------------------
\* Stage 2: prepare_tts_chunks_with_citations
\* ------------------------------------------------------------------------

\* The accumulators of the function before the first page.
ChunkerStart ==
    [ tts_chunks            |-> << >>,
      global_sentence_index |-> 0,
      estimated_total_time  |-> 0,
      current_chunk         |-> << >>,
      current_chunk_chars   |-> 0,
      chunk_sentences_data  |-> << >> ]

\* est_duration = len(chunk_text) / AVG_CHARS_PER_SECOND, as a numerator
\* over AVG_CHARS_PER_SECOND.
EstDuration(chunk_text) == Len(chunk_text)

\* tts_chunks.append({...}); estimated_total_time += est_duration
EmitChunk(st, page_num, block_index) ==
    LET chunk_text   == JoinSpace(st.current_chunk)
        est_duration == EstDuration(chunk_text)
        chunk == [ chunk_id         |-> Len(st.tts_chunks),
                   text             |-> chunk_text,
                   page             |-> page_num,
                   block_index      |-> block_index + 1,
                   sentences        |-> st.chunk_sentences_data,
                   start_time       |-> st.estimated_total_time,
                   duration_seconds |-> est_duration,
                   end_time         |-> st.estimated_total_time + est_duration ]
    IN  [ st EXCEPT !.tts_chunks = Append(@, chunk),
                    !.estimated_total_time = @ + est_duration ]

\* The sentence joins the current chunk.
AddToChunk(st, sentence, sentence_chars) ==
    [ st EXCEPT
        !.current_chunk = Append(@, sentence),
        !.current_chunk_chars = @ + sentence_chars,
        !.chunk_sentences_data =
            Append(@, [ global_index      |-> st.global_sentence_index,
                        sentence_in_block |-> Len(st.chunk_sentences_data),
                        text              |-> sentence ]),
        !.global_sentence_index = @ + 1 ]

\* StartNewChunk as it would be if the else branch forgot
\* "global_sentence_index += 1".
StartNewChunkStaleIndex(st, sentence, sentence_chars, page_num, block_index) ==
    LET closed == IF st.current_chunk # << >>
                  THEN EmitChunk(st, page_num, block_index)
                  ELSE st
    IN  [ closed EXCEPT
            !.current_chunk = << sentence >>,
            !.current_chunk_chars = sentence_chars,
            !.chunk_sentences_data =
                << [ global_index      |-> st.global_sentence_index,
                     sentence_in_block |-> 0,
                     text              |-> sentence ] >> ]

\* The sentence closes the current chunk (if any) and starts the next one.
StartNewChunk(st, sentence, sentence_chars, page_num, block_index) ==
    LET closed == IF st.current_chunk # << >>
                  THEN EmitChunk(st, page_num, block_index)
                  ELSE st
    IN  [ closed EXCEPT
            !.current_chunk = << sentence >>,
            !.current_chunk_chars = sentence_chars,
            !.chunk_sentences_data =
                << [ global_index      |-> st.global_sentence_index,
                     sentence_in_block |-> 0,
                     text              |-> sentence ] >>,
            !.global_sentence_index = @ + 1 ]

\* ProcessSentence as it would be if a sentence that cannot fit any chunk
\* were skipped.
ProcessSentenceDropsLong(st, raw_sentence, page_num, block_index) ==
    LET sentence       == Strip(raw_sentence)
        sentence_chars == Len(sentence) + 1
    IN  IF sentence = << >> \/ sentence_chars >= max_chars THEN st
        ELSE IF st.current_chunk_chars + sentence_chars < max_chars
             THEN AddToChunk(st, sentence, sentence_chars)
             ELSE StartNewChunk(st, sentence, sentence_chars, page_num, block_index)

\* ProcessSentence as it would be with "<=" in the size test.
ProcessSentenceInclusive(st, raw_sentence, page_num, block_index) ==
    LET sentence       == Strip(raw_sentence)
        sentence_chars == Len(sentence) + 1
    IN  IF sentence = << >> THEN st
        ELSE IF st.current_chunk_chars + sentence_chars <= max_chars
             THEN AddToChunk(st, sentence, sentence_chars)
             ELSE StartNewChunk(st, sentence, sentence_chars, page_num, block_index)

\* One iteration of "for sentence in sentences".
ProcessSentence(st, raw_sentence, page_num, block_index) ==
    LET sentence       == Strip(raw_sentence)
        sentence_chars == Len(sentence) + 1
    IN  IF sentence = << >> THEN st
        ELSE IF st.current_chunk_chars + sentence_chars < max_chars
             THEN AddToChunk(st, sentence, sentence_chars)
             ELSE StartNewChunk(st, sentence, sentence_chars, page_num, block_index)

RECURSIVE ProcessSentences(_, _, _, _)
ProcessSentences(st, sentences, page_num, block_index) ==
    IF sentences = << >> THEN st
    ELSE ProcessSentences(ProcessSentence(st, Head(sentences), page_num, block_index),
                          Tail(sentences), page_num, block_index)

\* FlushBlock as it would be if the last chunk of a block were appended
\* without "estimated_total_time += est_duration".
FlushBlockNoAdvance(st, page_num, block_index) ==
    IF st.current_chunk # << >>
    THEN [ st EXCEPT !.tts_chunks = EmitChunk(st, page_num, block_index).tts_chunks ]
    ELSE st

\* "if current_chunk:" after the sentence loop of a block.
FlushBlock(st, page_num, block_index) ==
    IF st.current_chunk # << >> THEN EmitChunk(st, page_num, block_index) ELSE st

\* ProcessBlock as it would be if the current chunk were not emptied at the
\* start of a block.
ProcessBlockNoReset(st, block_text, page_num, block_index) ==
    FlushBlock(ProcessSentences(st, SplitSentences(block_text), page_num, block_index),
               page_num, block_index)

\* One iteration of "for block_index, block_text in enumerate(...)";
\* block_index is 0-based as enumerate gives it.
ProcessBlock(st, block_text, page_num, block_index) ==
    LET fresh == [ st EXCEPT !.current_chunk = << >>,
                             !.current_chunk_chars = 0,
                             !.chunk_sentences_data = << >> ]
        after == ProcessSentences(fresh, SplitSentences(block_text),
                                  page_num, block_index)
    IN  FlushBlock(after, page_num, block_index)

RECURSIVE ProcessBlocks(_, _, _, _)
ProcessBlocks(st, text_blocks, page_num, k) ==
    IF k > Len(text_blocks) THEN st
    ELSE ProcessBlocks(ProcessBlock(st, text_blocks[k], page_num, k - 1),
                       text_blocks, page_num, k + 1)

RECURSIVE ProcessPages(_, _)
ProcessPages(st, content) ==
    IF content = << >> THEN st
    ELSE ProcessPages(ProcessBlocks(st, Head(content).text_blocks,
                                    Head(content).page_number, 1),
                      Tail(content))

\* \w of the regular expressions, on the characters drawn here.
IsWordChar(c) == c \in {"a", "b", "_"}

\* re.sub(r'[^\w\s-]', '', title).strip().replace(' ', '_')
SanitizeTitle(title) ==
    LET kept     == SelectSeq(title, LAMBDA c : IsWordChar(c) \/ IsSpace(c) \/ c = "-")
        stripped == Strip(kept)
    IN  [ i \in 1 .. Len(stripped) |->
            IF stripped[i] = " " THEN "_" ELSE stripped[i] ]

\* The CitationManifest the function writes for the raw cache `data`.
CitationManifestOf(data) ==
    LET st == ProcessPages(ChunkerStart, data.content)
    IN  [ metadata   |-> data.metadata,
          book_id    |-> SanitizeTitle(data.metadata.title),
          processing |-> [ total_chunks   |-> Len(st.tts_chunks),
                           total_sentences |-> st.global_sentence_index,
                           total_estimated_duration_seconds |->
                               st.estimated_total_time ],
          chunks     |-> st.tts_chunks ]

\* ------------------------------------------------------------------------
\* Inputs: raw extraction caches as process_pdf writes them
\* ------------------------------------------------------------------------

\* All texts of exactly n characters.
RECURSIVE TextsOfLen(_)
TextsOfLen(n) ==
    IF n = 0 THEN { << >> }
    ELSE { Append(t, c) : t \in TextsOfLen(n - 1), c \in Chars }

\* process_pdf keeps a block only when block_text, stripped, is not empty.
BlockTexts ==
    { t \in UNION { TextsOfLen(n) : n \in 1 .. MaxBlockLen } : Strip(t) = t }

\* A sentence that alone reaches max_chars: len(sentence) + 1 = max_chars.
LongSentence == [ i \in 1 .. max_chars - 1 |-> IF i = max_chars - 1 THEN "." ELSE "a" ]

\* Blocks in which such a sentence stands alone, first, last, or between
\* others, and next to two short sentences that fit one chunk.
LongBlockTexts ==
    { LongSentence,
      LongSentence \o << " ", "a" >>,
      << "a", ".", " " >> \o LongSentence,
      << "a", ".", " " >> \o LongSentence \o << " ", "a" >>,
      << ".", " ", ".", " " >> \o LongSentence,
      LongSentence \o << " ", ".", " ", "a" >> }

\* The shorter block texts, for the lookups.
ResolveTexts == { t \in BlockTexts : Len(t) < MaxBlockLen }

DocMetadata == [ title |-> << "a", " ", "b", "." >>, author |-> "Unknown" ]

\* The pages of a cache whose text blocks are drawn from `texts`: one page
\* with up to two blocks, or two pages with one block between them or one
\* block each.  A page without text appears in the cache only through its
\* coordinate blocks, so page numbers need not start at 1.
ContentsOver(texts) ==
    LET page(n, blocks) == [ page_number |-> n, text_blocks |-> blocks ]
    IN  { << page(n, << >>) >> : n \in {1, 2} }
        \cup { << page(n, << t >>) >> : n \in {1, 2}, t \in texts }
        \cup { << page(1, << t, u >>) >> : t \in texts, u \in texts }
        \cup { << page(1, << t >>), page(2, << u >>) >> : t \in texts, u \in texts }
        \cup { << page(1, << >>), page(2, << t >>) >> : t \in texts }

DocsOver(texts) ==
    { [ metadata |-> DocMetadata, content |-> c ] : c \in ContentsOver(texts) }

\* The documents of the one book the audio stage is run on.  They carry the
\* same title, so each of them is chunked into the same CitationManifest
\* path and the same audio directory: three chunks on page 1, or two chunks
\* on page 2 (page 1 holding no text).
BookContents ==
    { << [ page_number |-> 1,
           text_blocks |-> << << "a", ".", " ", "a", "." >>, << "a", "." >> >> ] >>,
      << [ page_number |-> 2,
           text_blocks |-> << << "a", ".", " ", "a", "." >> >> ] >> }

BookDocs == { [ metadata |-> DocMetadata, content |-> c ] : c \in BookContents }

\* ------------------------------------------------------------------------
\* State
\* ------------------------------------------------------------------------

VARIABLES
    raw_cache,        \* CACHE_DIR/<stem>_raw.json: NoFile or its content
    citation_file,    \* CACHE_DIR/<book_id>_citation_ready.json
    audio_files,      \* the .wav files that exist in audio_dir (their names)
    ledger_file,      \* audio_dir/manifest.json: NoFile, Unreadable or content
    pc,               \* where generate_audio_streaming stands
    data,             \* its local `data` (the CitationManifest it read)
    manifest,         \* its local `manifest` (the ledger it builds)
    chunks_to_process,
    idx,              \* 1-based position of the loop in chunks_to_process
    requests,         \* chunk_ids POSTed to the TTS service in this run, in order
    writes,           \* files written in this run, in order
    failed,           \* chunk_ids whose synthesis failed in this run
    files_at_start,   \* audio_files as the run found them
    ledger_at_start,  \* ledger_file as the run found it
    durable,          \* ready_chunks of the last ledger write that completed
    input_pdf,        \* INPUT_DIR/<pdf_filename>: NoFile, CorruptPdf or a document
    pipeline,         \* where run_full_pipeline stands, and what it has done
    resolved,         \* the last call of get_citation_at_timestamp and its answer
    run_limit,        \* the `limit` argument of the running generate_audio_streaming
    chunked,          \* how the last call of prepare_tts_chunks_with_citations ended
    other             \* a second generate_audio_streaming task on the same book

vars == << raw_cache, citation_file, audio_files, ledger_file, pc, data, manifest,
           chunks_to_process, idx, requests, writes, failed, files_at_start,
           ledger_at_start, durable, input_pdf, pipeline, resolved, run_limit,
           chunked, other >>

run_vars == << pc, data, manifest, chunks_to_process, idx, requests, writes,
               failed, files_at_start, ledger_at_start, run_limit >>

disk_vars == << audio_files, ledger_file, durable >>

\* What the stage functions of the pipeline's own run neither read nor write.
caller_vars == << input_pdf, pipeline, resolved, chunked, other >>

\* The value of a path at which no file exists.
NoFile == [ file |-> "none" ]

\* A file that exists and that json.load cannot parse.
Unreadable == [ file |-> "unreadable" ]

\* A PDF file that fitz cannot open.
CorruptPdf == [ file |-> "corrupt" ]

\* prepare_tts_chunks_with_citations has not been called on the cache.
NotChunked == "not_called"

\* The second task has not been started.
NoOther == [ pc |-> "idle" ]

\* run_full_pipeline is not running.
IdlePipeline ==
    [ pc                |-> "idle",
      started           |-> << >>,
      cache_hit         |-> FALSE,
      raw_at_start      |-> NoFile,
      citation_at_start |-> NoFile ]

\* limit=None; a given limit n is << n >>.
NoLimit == << >>

\* Largest `limit` argument drawn.
MaxLimit == 1

Limits == {NoLimit} \cup { << n >> : n \in 0 .. MaxLimit }

\* The function has returned, or the process was stopped while it ran.
Returned == {"done", "halted", "nofile", "raised", "stopped"}

Running == {"loop", "await", "record", "dump"}

\* ------------------------------------------------------------------------
\* Stage 3: generate_audio_streaming
\* ------------------------------------------------------------------------
\*
\* The function is cut into steps where another outcome can begin: at the
\* await of the POST, and around each file write, because the process can be
\* stopped between any two of them.  open(manifest_path, 'w') truncates the
\* ledger file before json.dump writes it, so between RecordReady (or
\* LoopHeal) and DumpLedger the file on disk cannot be parsed.  A write that
\* is begun and not interrupted succeeds: the "except" around the repair
\* write (disk error) is not modelled, nor is a partly written audio file.

\* f"chunk_{chunk_id:04d}_p{page}.wav"
AudioFilename(chunk_id, page) == << "chunk", chunk_id, "p", page >>

LedgerPath == << "manifest.json" >>

\* s[:n]
Prefix(s, n) == SubSeq(s, 1, IF n < Len(s) THEN n ELSE Len(s))

\* The ready-chunk record appended for a chunk.
ReadyRecord(chunk) ==
    [ chunk_id         |-> chunk.chunk_id,
      filename         |-> AudioFilename(chunk.chunk_id, chunk.page),
      page             |-> chunk.page,
      text_snippet     |-> Prefix(chunk.text, 50) \o << ".", ".", "." >>,
      start_time       |-> chunk.start_time,
      duration_seconds |-> chunk.duration_seconds ]

\* Insert r behind every record whose chunk_id is not greater (stable).
RECURSIVE InsertById(_, _)
InsertById(sorted, r) ==
    IF sorted = << >> THEN << r >>
    ELSE IF r.chunk_id < Head(sorted).chunk_id THEN << r >> \o sorted
    ELSE << Head(sorted) >> \o InsertById(Tail(sorted), r)

\* ready_chunks.sort(key=lambda c: c['chunk_id'])
RECURSIVE SortById(_)
SortById(records) ==
    IF records = << >> THEN << >>
    ELSE InsertById(SortById(SubSeq(records, 1, Len(records) - 1)),
                    records[Len(records)])

\* AppendReady as it would be without the sort.
AppendReadyUnsorted(ready_chunks, chunk) ==
    Append(ready_chunks, ReadyRecord(chunk))

\* manifest['ready_chunks'].append({...}); manifest['ready_chunks'].sort(...)
AppendReady(ready_chunks, chunk) ==
    SortById(Append(ready_chunks, ReadyRecord(chunk)))

\* any(c['chunk_id'] == chunk_id for c in ready_chunks)
Listed(ready_chunks, chunk_id) ==
    \E k \in 1 .. Len(ready_chunks) : ready_chunks[k].chunk_id = chunk_id

\* ChunksToProcess as it would be if the list were walked from its end.
ChunksToProcessReversed(chunks, limit) ==
    LET range == IF limit # NoLimit /\ limit[1] # 0
                 THEN Prefix(chunks, limit[1]) ELSE chunks
    IN  [ k \in 1 .. Len(range) |-> range[Len(range) + 1 - k] ]

\* data['chunks'][:limit] if limit else data['chunks']
ChunksToProcess(chunks, limit) ==
    IF limit # NoLimit /\ limit[1] # 0 THEN Prefix(chunks, limit[1]) ELSE chunks

\* SkipChunk as it would be if only the file were tested.
SkipChunkFileOnly(files, ready_chunks, chunk) ==
    AudioFilename(chunk.chunk_id, chunk.page) \in files

\* The skip test of the loop.
SkipChunk(files, ready_chunks, chunk) ==
    AudioFilename(chunk.chunk_id, chunk.page) \in files
        \/ Listed(ready_chunks, chunk.chunk_id)

\* NeedsHeal as it would be without the repair of the ledger.
NeedsHealNever(files, ready_chunks, chunk) == FALSE

\* The file exists but the ledger does not list the chunk.
NeedsHeal(files, ready_chunks, chunk) ==
    AudioFilename(chunk.chunk_id, chunk.page) \in files
        /\ ~Listed(ready_chunks, chunk.chunk_id)

InLoop == pc = "loop" /\ idx <= Len(chunks_to_process)

Chunk == chunks_to_process[idx]

\* The ledger the function starts from, before the existing one is read.
NewManifest(citation) ==
    [ metadata     |-> citation.metadata,
      book_id      |-> citation.book_id,
      total_chunks |-> Len(citation.chunks),
      ready_chunks |-> << >> ]

\* LoadLedger as it would be if a failed read were only logged: the run goes
\* on from an empty ready list.
LoadLedgerNoHalt(ledger) ==
    IF ledger = NoFile \/ ledger = Unreadable
    THEN [ halt |-> FALSE, ready_chunks |-> << >> ]
    ELSE [ halt |-> FALSE, ready_chunks |-> ledger.ready_chunks ]

\* LoadLedger as it would be if the existing ledger were not read back.
LoadLedgerIgnored(ledger) ==
    [ halt |-> ledger = Unreadable, ready_chunks |-> << >> ]

\* "if manifest_path.exists(): try: ... except: return None": whether the
\* function must return (json.load of the existing ledger raised), and
\* otherwise the ready_chunks it starts from: those of the ledger read
\* (existing_manifest.get('ready_chunks', [])), none without a ledger file.
LoadLedger(ledger) ==
    IF ledger = NoFile THEN [ halt |-> FALSE, ready_chunks |-> << >> ]
    ELSE IF ledger = Unreadable THEN [ halt |-> TRUE, ready_chunks |-> << >> ]
    ELSE [ halt |-> FALSE, ready_chunks |-> ledger.ready_chunks ]

\* No call of the function is in progress.
EmptyRun ==
    /\ pc = "idle"
    /\ data = NoFile
    /\ manifest = NoFile
    /\ chunks_to_process = << >>
    /\ idx = 1
    /\ requests = << >>
    /\ writes = << >>
    /\ failed = {}
    /\ files_at_start = {}
    /\ ledger_at_start = NoFile
    /\ run_limit = NoLimit

ResetRun ==
    /\ requests' = << >>
    /\ writes' = << >>
    /\ failed' = {}
    /\ files_at_start' = audio_files
    /\ ledger_at_start' = ledger_file
    /\ idx' = 1

\* Stage 1 and Stage 2 of a pipeline run on a document of the book, which
\* run_full_pipeline calls back to back without an await in between: the raw
\* cache and the CitationManifest are (re)written.
ExtractAndChunk ==
    /\ pc = "idle"
    /\ \E d \in BookDocs :
        /\ raw_cache' = d
        /\ citation_file' = CitationManifestOf(d)
    /\ UNCHANGED << run_vars, disk_vars >>
    /\ UNCHANGED caller_vars

\* A key the try block of Stage 2 reads is not there: data['content'],
\* page_data['page_number'] or page_data['text_blocks'] of a page, or
\* data['metadata'].  The KeyError is raised before citation_path is opened.
MissingKey(cache) ==
    IF {"content", "metadata"} \subseteq DOMAIN cache
    THEN \E k \in 1 .. Len(cache.content) :
             ~({"page_number", "text_blocks"} \subseteq DOMAIN cache.content[k])
    ELSE TRUE

\* prepare_tts_chunks_with_citations on a raw cache it can chunk: the
\* CitationManifest is written and its path returned.
PrepareChunks ==
    /\ pc = "idle"
    /\ raw_cache # NoFile
    /\ raw_cache # Unreadable
    /\ ~MissingKey(raw_cache)
    /\ citation_file' = CitationManifestOf(raw_cache)
    /\ chunked' = "path"
    /\ UNCHANGED << raw_cache, run_vars, disk_vars, input_pdf, pipeline,
                    resolved, other >>

\* Lines 313-315: there is no cache file; None is returned.
PrepareChunksNoCache ==
    /\ pc = "idle"
    /\ raw_cache = NoFile
    /\ chunked' = "None"
    /\ UNCHANGED << raw_cache, citation_file, run_vars, disk_vars, input_pdf,
                    pipeline, resolved, other >>

\* Lines 317-318: json.load cannot parse the cache file.  The two lines
\* stand before the try, so the JSONDecodeError leaves the function.
PrepareChunksRaises ==
    /\ pc = "idle"
    /\ raw_cache = Unreadable
    /\ chunked' = "raised"
    /\ UNCHANGED << raw_cache, citation_file, run_vars, disk_vars, input_pdf,
                    pipeline, resolved, other >>

\* Lines 399-401: a KeyError inside the try is logged and None is returned;
\* nothing has been written.
PrepareChunksKeyError ==
    /\ pc = "idle"
    /\ raw_cache # NoFile
    /\ raw_cache # Unreadable
    /\ MissingKey(raw_cache)
    /\ chunked' = "None"
    /\ UNCHANGED << raw_cache, citation_file, run_vars, disk_vars, input_pdf,
                    pipeline, resolved, other >>

\* generate_audio_streaming: the citation file does not exist.
GenNoCitation ==
    /\ pc = "idle"
    /\ citation_file = NoFile
    /\ pc' = "nofile"
    /\ ResetRun
    /\ UNCHANGED << raw_cache, citation_file, disk_vars, data, manifest,
                    chunks_to_process >>
    /\ UNCHANGED << run_limit, caller_vars >>

\* generate_audio_streaming: the existing ledger cannot be read (hard stop).
GenHardStop ==
    /\ pc = "idle"
    /\ citation_file # NoFile
    /\ citation_file # Unreadable
    /\ LoadLedger(ledger_file).halt
    /\ pc' = "halted"
    /\ ResetRun
    /\ data' = citation_file
    /\ manifest' = NewManifest(citation_file)
    /\ UNCHANGED << raw_cache, citation_file, disk_vars, chunks_to_process >>
    /\ UNCHANGED << run_limit, caller_vars >>

\* generate_audio_streaming(citation_json_path, limit) up to the first
\* iteration of the chunk loop.
GenStartWith(limit) ==
    /\ pc = "idle"
    /\ citation_file # NoFile
    /\ citation_file # Unreadable
    /\ ~LoadLedger(ledger_file).halt
    /\ chunks_to_process' = ChunksToProcess(citation_file.chunks, limit)
    /\ run_limit' = limit
    /\ pc' = "loop"
    /\ ResetRun
    /\ data' = citation_file
    /\ manifest' = [ NewManifest(citation_file) EXCEPT
                       !.ready_chunks = LoadLedger(ledger_file).ready_chunks ]
    /\ UNCHANGED << raw_cache, citation_file, disk_vars >>
    /\ UNCHANGED caller_vars

\* A call with any limit.
GenStart == \E limit \in Limits : GenStartWith(limit)

\* generate_audio_streaming: the citation file exists and json.load cannot
\* parse it; the exception leaves the function.
GenCitationUnreadable ==
    /\ pc = "idle"
    /\ citation_file = Unreadable
    /\ pc' = "raised"
    /\ ResetRun
    /\ UNCHANGED << raw_cache, citation_file, disk_vars, data, manifest,
                    chunks_to_process >>
    /\ UNCHANGED << run_limit, caller_vars >>

\* LoopSkip as it would be if the loop looked at the skipped chunk again.
LoopSkipNoAdvance ==
    /\ InLoop
    /\ SkipChunk(audio_files, manifest.ready_chunks, Chunk)
    /\ ~NeedsHeal(audio_files, manifest.ready_chunks, Chunk)
    /\ UNCHANGED << raw_cache, citation_file, disk_vars, run_vars >>
    /\ UNCHANGED caller_vars

\* The chunk is skipped and the ledger already lists it (or needs no repair).
LoopSkip ==
    /\ InLoop
    /\ SkipChunk(audio_files, manifest.ready_chunks, Chunk)
    /\ ~NeedsHeal(audio_files, manifest.ready_chunks, Chunk)
    /\ idx' = idx + 1
    /\ UNCHANGED << raw_cache, citation_file, disk_vars, pc, data, manifest,
                    chunks_to_process, requests, writes, failed, files_at_start,
                    ledger_at_start >>
    /\ UNCHANGED << run_limit, caller_vars >>

\* The chunk is skipped, its file exists and the ledger does not list it:
\* the record is added and the ledger file is opened for writing, which
\* truncates it.
LoopHeal ==
    /\ InLoop
    /\ SkipChunk(audio_files, manifest.ready_chunks, Chunk)
    /\ NeedsHeal(audio_files, manifest.ready_chunks, Chunk)
    /\ manifest' = [ manifest EXCEPT !.ready_chunks = AppendReady(@, Chunk) ]
    /\ ledger_file' = Unreadable
    /\ writes' = Append(writes, LedgerPath)
    /\ pc' = "dump"
    /\ UNCHANGED << raw_cache, citation_file, audio_files, durable, data,
                    chunks_to_process, idx, requests, failed, files_at_start,
                    ledger_at_start >>
    /\ UNCHANGED << run_limit, caller_vars >>

\* json.dump(manifest, f) and the close of the ledger file; the loop goes on.
DumpLedger ==
    /\ pc = "dump"
    /\ ledger_file' = manifest
    /\ durable' = manifest.ready_chunks
    /\ idx' = idx + 1
    /\ pc' = "loop"
    /\ UNCHANGED << raw_cache, citation_file, audio_files, data, manifest,
                    chunks_to_process, requests, writes, failed, files_at_start,
                    ledger_at_start >>
    /\ UNCHANGED << run_limit, caller_vars >>

\* await client.post(TTS_SERVICE_URL, ...) is issued for the chunk.
LoopPost ==
    /\ InLoop
    /\ ~SkipChunk(audio_files, manifest.ready_chunks, Chunk)
    /\ requests' = Append(requests, Chunk.chunk_id)
    /\ pc' = "await"
    /\ UNCHANGED << raw_cache, citation_file, disk_vars, data, manifest,
                    chunks_to_process, idx, writes, failed, files_at_start,
                    ledger_at_start >>
    /\ UNCHANGED << run_limit, caller_vars >>

\* The response is a success: its content is written to audio_path.
SynthSuccess ==
    /\ pc = "await"
    /\ audio_files' = audio_files \cup {AudioFilename(Chunk.chunk_id, Chunk.page)}
    /\ writes' = Append(writes, AudioFilename(Chunk.chunk_id, Chunk.page))
    /\ pc' = "record"
    /\ UNCHANGED << raw_cache, citation_file, ledger_file, durable, data,
                    manifest, chunks_to_process, idx, requests, failed,
                    files_at_start, ledger_at_start >>
    /\ UNCHANGED << run_limit, caller_vars >>

\* SynthFailure as it would be if the handler returned instead of continuing.
SynthFailureAborts ==
    /\ pc = "await"
    /\ failed' = failed \cup {Chunk.chunk_id}
    /\ pc' = "done"
    /\ UNCHANGED << raw_cache, citation_file, disk_vars, data, manifest,
                    chunks_to_process, idx, requests, writes, files_at_start,
                    ledger_at_start >>
    /\ UNCHANGED << run_limit, caller_vars >>

\* raise_for_status raises, or the POST raises (transport error, timeout):
\* logged, and the loop continues with the next chunk.
SynthFailure ==
    /\ pc = "await"
    /\ failed' = failed \cup {Chunk.chunk_id}
    /\ idx' = idx + 1
    /\ pc' = "loop"
    /\ UNCHANGED << raw_cache, citation_file, disk_vars, data, manifest,
                    chunks_to_process, requests, writes, files_at_start, ledger_at_start >>
    /\ UNCHANGED << run_limit, caller_vars >>

\* The record of the chunk just written is appended, the list is sorted and
\* the ledger file is opened for writing, which truncates it.
RecordReady ==
    /\ pc = "record"
    /\ manifest' = [ manifest EXCEPT !.ready_chunks = AppendReady(@, Chunk) ]
    /\ ledger_file' = Unreadable
    /\ writes' = Append(writes, LedgerPath)
    /\ pc' = "dump"
    /\ UNCHANGED << raw_cache, citation_file, audio_files, durable, data,
                    chunks_to_process, idx, requests, failed, files_at_start,
                    ledger_at_start >>
    /\ UNCHANGED << run_limit, caller_vars >>

\* The loop is over: the function returns audio_dir.
LoopEnd ==
    /\ pc = "loop"
    /\ idx > Len(chunks_to_process)
    /\ pc' = "done"
    /\ UNCHANGED << raw_cache, citation_file, disk_vars, data, manifest,
                    chunks_to_process, idx, requests, writes, failed,
                    files_at_start, ledger_at_start >>
    /\ UNCHANGED << run_limit, caller_vars >>

\* The process is stopped while the function runs; the files stay as they
\* are at that moment.
Crash ==
    /\ pc \in Running
    /\ pc' = "stopped"
    /\ UNCHANGED << raw_cache, citation_file, disk_vars, data, manifest,
                    chunks_to_process, idx, requests, writes, failed,
                    files_at_start, ledger_at_start >>
    /\ UNCHANGED << run_limit, caller_vars >>

\* The call is over and its locals are gone (or the process is restarted):
\* the next call starts from the files alone.
Return ==
    /\ pc \in Returned
    /\ pc' = "idle"
    /\ data' = NoFile
    /\ manifest' = NoFile
    /\ chunks_to_process' = << >>
    /\ idx' = 1
    /\ requests' = << >>
    /\ writes' = << >>
    /\ failed' = {}
    /\ files_at_start' = {}
    /\ ledger_at_start' = NoFile
    /\ run_limit' = NoLimit
    /\ UNCHANGED << raw_cache, citation_file, disk_vars >>
    /\ UNCHANGED caller_vars

\* ------------------------------------------------------------------------
\* The status endpoint of the audio server: get_audiobook_status
\* ------------------------------------------------------------------------

\* round(progress, 1) of progress = (ready / total_chunks) * 100, in tenths
\* of a percent, and 0 when total_chunks is not positive.
ProgressTenths(ready, total_chunks) ==
    IF total_chunks > 0
    THEN (2 * 1000 * ready + total_chunks) \div (2 * total_chunks)
    ELSE 0

\* What get_audiobook_status answers from the ledger file of the book: 404
\* without a file, 500 when it cannot be parsed, and otherwise the counts it
\* takes from the ledger alone.
AudiobookStatus(ledger) ==
    IF ledger = NoFile THEN [ status_code |-> 404 ]
    ELSE IF ledger = Unreadable THEN [ status_code |-> 500 ]
    ELSE [ status_code         |-> 200,
           total_chunks        |-> ledger.total_chunks,
           ready_chunks        |-> ledger.ready_chunks,
           progress_percentage |-> ProgressTenths(Len(ledger.ready_chunks),
                                                  ledger.total_chunks),
           is_complete         |-> /\ Len(ledger.ready_chunks) = ledger.total_chunks
                                   /\ ledger.total_chunks > 0 ]

\* ------------------------------------------------------------------------
\* A second task on the same book
\* ------------------------------------------------------------------------
\*
\* start_pdf_processing hands every accepted request to
\* background_tasks.add_task(run_full_pipeline, ...) and holds no lock, so a
\* request made while a run of the book is suspended at "await client.post"
\* starts a second generate_audio_streaming on the same audio directory.  The
\* tasks share one event loop: a task runs from one await to the next without
\* the other getting a turn, so each action of the second task is the whole of
\* its code between two awaits, and it is taken only while the first task
\* stands at its await or has returned.

\* The first task is suspended or over: the event loop can run the second.
FirstTaskYields == pc \in {"await", "done"}

\* The chunk loop from position i up to the next POST or the end of the
\* list: skips, and the repair of the ledger for a file it does not list.
\* `wrote` tells whether the ledger file was rewritten on the way.
RECURSIVE OtherAdvance(_, _, _, _, _)
OtherAdvance(files, ready_chunks, chunks, i, wrote) ==
    IF i > Len(chunks)
    THEN [ ready_chunks |-> ready_chunks, idx |-> i, wrote |-> wrote ]
    ELSE IF ~SkipChunk(files, ready_chunks, chunks[i])
    THEN [ ready_chunks |-> ready_chunks, idx |-> i, wrote |-> wrote ]
    ELSE IF NeedsHeal(files, ready_chunks, chunks[i])
    THEN OtherAdvance(files, AppendReady(ready_chunks, chunks[i]), chunks,
                      i + 1, TRUE)
    ELSE OtherAdvance(files, ready_chunks, chunks, i + 1, wrote)

\* The second task after the loop went on from position i with the ready
\* list ready_chunks, and the ledger file it leaves behind.
OtherGoesOn(task, ready_chunks, i, wrote) ==
    LET adv == OtherAdvance(audio_files', ready_chunks, task.chunks, i, wrote)
        m   == [ task.manifest EXCEPT !.ready_chunks = adv.ready_chunks ]
    IN  /\ other' = [ pc       |-> IF adv.idx > Len(task.chunks)
                                    THEN "done" ELSE "await",
                       manifest |-> m,
                       chunks   |-> task.chunks,
                       idx      |-> adv.idx ]
        /\ ledger_file' = IF adv.wrote THEN m ELSE ledger_file
        /\ durable' = IF adv.wrote THEN m.ready_chunks ELSE durable

\* The second generate_audio_streaming, from its start to its first POST.
OtherStart ==
    /\ other = NoOther
    /\ pc = "await"
    /\ citation_file # NoFile
    /\ citation_file # Unreadable
    /\ ~LoadLedger(ledger_file).halt
    /\ audio_files' = audio_files
    /\ OtherGoesOn([ manifest |-> NewManifest(citation_file),
                      chunks   |-> citation_file.chunks ],
                    LoadLedger(ledger_file).ready_chunks, 1, FALSE)
    /\ UNCHANGED << raw_cache, citation_file, run_vars, input_pdf, pipeline,
                    resolved, chunked >>

\* Its POST succeeds: the audio file is written, the record appended and the
\* ledger dumped from the task's own list; the loop goes on to the next POST.
OtherSynthSuccess ==
    /\ other.pc = "await"
    /\ FirstTaskYields
    /\ LET chunk == other.chunks[other.idx]
       IN  /\ audio_files' = audio_files
                                \cup {AudioFilename(chunk.chunk_id, chunk.page)}
           /\ OtherGoesOn(other,
                           AppendReady(other.manifest.ready_chunks, chunk),
                           other.idx + 1, TRUE)
    /\ UNCHANGED << raw_cache, citation_file, run_vars, input_pdf, pipeline,
                    resolved, chunked >>

\* Its POST fails: the loop goes on to the next POST.
OtherSynthFailure ==
    /\ other.pc = "await"
    /\ FirstTaskYields
    /\ audio_files' = audio_files
    /\ OtherGoesOn(other, other.manifest.ready_chunks, other.idx + 1, FALSE)
    /\ UNCHANGED << raw_cache, citation_file, run_vars, input_pdf, pipeline,
                    resolved, chunked >>

\* ------------------------------------------------------------------------
\* Citation lookup: get_citation_at_timestamp
\* ------------------------------------------------------------------------
\*
\* A timestamp is a number of ticks, TicksPerUnit of them to one unit of the
\* chunk times (1 / AVG_CHARS_PER_SECOND seconds), so that timestamps between
\* two chunk boundaries are drawn as well as the boundaries themselves.  The
\* quotient and the product of the sentence index are taken exactly; the
\* source takes them in floating point.

AVG_CHARS_PER_SECOND == 14

\* Timestamps drawn per unit of chunk time.
TicksPerUnit == 2

\* No call has been made.
NotResolved == [ called |-> FALSE ]

\* "return None"
NotFound == [ found |-> FALSE ]

\* SentenceIndex as it would be if the progress were taken from the start of
\* the book instead of the start of the chunk.
SentenceIndexFromZero(chunk, ticks) ==
    LET duration        == chunk.duration_seconds * TicksPerUnit
        count           == Len(chunk.sentences)
        sentence_index  == IF duration > 0
                           THEN (ticks * count) \div duration
                           ELSE 0
    IN  IF sentence_index < count - 1 THEN sentence_index ELSE count - 1

\* SentenceIndex as it would be if the sentences were counted from the end
\* of the chunk.
SentenceIndexFromEnd(chunk, ticks) ==
    LET time_into_chunk == ticks - chunk.start_time * TicksPerUnit
        duration        == chunk.duration_seconds * TicksPerUnit
        count           == Len(chunk.sentences)
        sentence_index  == IF duration > 0
                           THEN (time_into_chunk * count) \div duration
                           ELSE 0
    IN  IF sentence_index < count - 1 THEN count - 1 - sentence_index ELSE 0

\* int(progress_ratio * len(chunk['sentences'])), capped at the last index,
\* for the timestamp `ticks` inside `chunk`.
SentenceIndex(chunk, ticks) ==
    LET time_into_chunk == ticks - chunk.start_time * TicksPerUnit
        duration        == chunk.duration_seconds * TicksPerUnit
        count           == Len(chunk.sentences)
        sentence_index  == IF duration > 0
                           THEN (time_into_chunk * count) \div duration
                           ELSE 0
    IN  IF sentence_index < count - 1 THEN sentence_index ELSE count - 1

\* sentence['text'][:100] + "..." if len(sentence['text']) > 100 else ...
SentenceText(text) ==
    IF Len(text) > 100 THEN Prefix(text, 100) \o << ".", ".", "." >> ELSE text

\* The dictionary returned for the chunk that matched.
CitationOf(metadata, chunk, ticks) ==
    LET sentence == chunk.sentences[SentenceIndex(chunk, ticks) + 1]
        seconds  == ticks \div (TicksPerUnit * AVG_CHARS_PER_SECOND)
    IN  [ found             |-> TRUE,
          citation          |-> << metadata.author, metadata.title, chunk.page,
                                   chunk.block_index,
                                   sentence.sentence_in_block + 1 >>,
          timestamp         |-> << seconds \div 60, seconds % 60 >>,
          page              |-> chunk.page,
          block             |-> chunk.block_index,
          sentence_in_block |-> sentence.sentence_in_block + 1,
          sentence_text     |-> SentenceText(sentence.text) ]

\* Covers as it would be with the interval closed at its end.
CoversClosed(chunk, ticks) ==
    /\ chunk.start_time * TicksPerUnit <= ticks
    /\ ticks <= chunk.end_time * TicksPerUnit

\* chunk['start_time'] <= timestamp_seconds < chunk['end_time']
Covers(chunk, ticks) ==
    /\ chunk.start_time * TicksPerUnit <= ticks
    /\ ticks < chunk.end_time * TicksPerUnit

\* "for chunk in data['chunks']": the first chunk that matches answers.
RECURSIVE ScanChunks(_, _, _)
ScanChunks(metadata, chunks, ticks) ==
    IF chunks = << >> THEN NotFound
    ELSE IF Covers(Head(chunks), ticks)
         THEN CitationOf(metadata, Head(chunks), ticks)
         ELSE ScanChunks(metadata, Tail(chunks), ticks)

\* The chunk and the sentence the loop of get_citation_at_timestamp stops
\* at: the first chunk that matches and chunk['sentences'][sentence_index].
RECURSIVE ScanPosition(_, _)
ScanPosition(chunks, ticks) ==
    IF chunks = << >> THEN NotFound
    ELSE IF Covers(Head(chunks), ticks)
         THEN [ found          |-> TRUE,
                chunk_id       |-> Head(chunks).chunk_id,
                sentence_index |-> SentenceIndex(Head(chunks), ticks),
                sentence       |-> Head(chunks).sentences[
                                       SentenceIndex(Head(chunks), ticks) + 1] ]
         ELSE ScanPosition(Tail(chunks), ticks)

\* get_citation_at_timestamp(citation_json_path, timestamp_seconds) on the
\* file `citation` at that path.
CitationAtTimestamp(citation, ticks) ==
    IF citation = NoFile THEN NotFound
    ELSE ScanChunks(citation.metadata, citation.chunks, ticks)

\* The timestamps drawn for a lookup: from before 0 to beyond the end of the
\* manifest on disk.
Timestamps ==
    IF citation_file = NoFile THEN -1 .. TicksPerUnit
    ELSE -1 .. (citation_file.processing.total_estimated_duration_seconds + 1)
                  * TicksPerUnit

\* A call of get_citation_at_timestamp on the book's CitationManifest.  The
\* call writes nothing and its answer depends on the file and the timestamp
\* alone, so one recorded call in a behaviour reaches every answer.
GetCitationAtTimestamp ==
    /\ pc = "idle"
    /\ resolved = NotResolved
    /\ \E ticks \in Timestamps :
        resolved' = [ called    |-> TRUE,
                      timestamp |-> ticks,
                      answer    |-> CitationAtTimestamp(citation_file, ticks) ]
    /\ UNCHANGED << raw_cache, citation_file, disk_vars, run_vars, input_pdf,
                    pipeline, chunked, other >>

\* The book ids a client may put in /api/v1/citation/{book_id}: the title
\* of the book and its id, ids that are a part of that id, ids that are not,
\* and ids of which the sanitization leaves nothing.
BookIdRequests ==
    { DocMetadata.title,
      << "a", "_", "b" >>,
      << "a", " ", "b" >>,
      << "a" >>,
      << "b" >>,
      << "_" >>,
      << "b", "a" >>,
      << "a", "b" >>,
      << "." >>,
      << >> }

\* fnmatch of "*" + id + "*": id occurs in name.
IsInfix(id, name) ==
    \E i \in 0 .. Len(name) - Len(id) : SubSeq(name, i + 1, i + Len(id)) = id

\* The name of the CitationManifest file in CACHE_DIR, up to its ending
\* "citation_ready.json".
CitationFileStem(citation) == citation.book_id \o << "_" >>

\* get_citation(book_id, timestamp): the path
\* CACHE_DIR/<sanitized id>_citation_ready.json if that file exists, otherwise
\* the first file of CACHE_DIR.glob("*<sanitized id>*citation_ready.json"),
\* otherwise 404; then the answer of get_citation_at_timestamp on that path,
\* and 404 if it is None.  NotFound stands for the 404.
GetCitationResponse(citation, book_id, ticks) ==
    LET safe_book_id_sanitized == SanitizeTitle(book_id)
        exists == /\ citation # NoFile
                  /\ safe_book_id_sanitized \o << "_" >> = CitationFileStem(citation)
        globbed == /\ citation # NoFile
                   /\ IsInfix(safe_book_id_sanitized, CitationFileStem(citation))
    IN  IF exists \/ globbed THEN CitationAtTimestamp(citation, ticks)
        ELSE NotFound

\* A call of the endpoint get_citation; like the lookup it writes nothing.
GetCitation ==
    /\ pc = "idle"
    /\ resolved = NotResolved
    /\ \E book_id \in BookIdRequests, ticks \in Timestamps :
        resolved' = [ called    |-> TRUE,
                      book_id   |-> book_id,
                      timestamp |-> ticks,
                      answer    |-> GetCitationResponse(citation_file, book_id,
                                                        ticks) ]
    /\ UNCHANGED << raw_cache, citation_file, disk_vars, run_vars, input_pdf,
                    pipeline, chunked, other >>

\* ------------------------------------------------------------------------
\* Orchestration: run_full_pipeline on one PDF file name
\* ------------------------------------------------------------------------
\*
\* A PDF is its metadata and, page by page, the texts of its blocks as fitz
\* gives them.  The three writes of the pipeline (raw cache, CitationManifest,
\* ledger) are open(path, 'w') followed by json.dump: the file is truncated
\* first.  The dump of Stage 1 and the open and the dump of Stage 2 stand
\* inside "try ... except Exception: return None", and either may raise (the
\* disk is full, the directory cannot be written).

\* pdf_path.stem of the file name the pipeline is run on.
PdfStem == << "b" >>

\* The PDFs that may lie at INPUT_DIR/<pdf_filename>: their extractions are
\* the documents of BookDocs.
BookPdfs ==
    { [ file     |-> "pdf",
        metadata |-> DocMetadata,
        pages    |-> << << << " ", "a", ".", " ", "a", ".", " " >>,
                           << " ", " " >>,
                           << "a", "." >> >> >> ],
      [ file     |-> "pdf",
        metadata |-> DocMetadata,
        pages    |-> << << >>,
                        << << "a", ".", " ", "a", "." >> >> >> ] }

\* page_text_chunks of one page: the stripped block texts that are not empty
\* (the two replace calls change nothing on the characters drawn here).
PageTextChunks(blocks) ==
    SelectSeq([ k \in 1 .. Len(blocks) |-> Strip(blocks[k]) ],
              LAMBDA block_text : block_text # << >>)

\* output_data["content"] for the pages from page_num + 1 on: a page is
\* appended when it has text chunks or coordinate blocks, and a page has
\* coordinate blocks when it has a text block at all.
RECURSIVE ExtractPages(_, _)
ExtractPages(pages, page_num) ==
    IF page_num >= Len(pages) THEN << >>
    ELSE ( IF pages[page_num + 1] # << >>
           THEN << [ page_number |-> page_num + 1,
                     text_blocks |-> PageTextChunks(pages[page_num + 1]) ] >>
           ELSE << >> )
         \o ExtractPages(pages, page_num + 1)

\* The raw cache process_pdf writes for a PDF.
ProcessPdf(pdf) ==
    [ metadata |-> pdf.metadata, content |-> ExtractPages(pdf.pages, 0) ]

\* The book id of the one CitationManifest path modelled (citation_file).
BookId == SanitizeTitle(DocMetadata.title)

\* PotentialCitationPath as it would be if the book id were always taken
\* from the stem of the PDF file name.
PotentialCitationPathFromStem(raw) ==
    IF raw = Unreadable THEN [ ok |-> FALSE ]
    ELSE [ ok |-> TRUE, book_id |-> SanitizeTitle(PdfStem) ]

\* Lines 168-180: the book id of potential_citation_path, from the title of
\* the raw cache if there is one and from the stem otherwise; reading a raw
\* cache that cannot be parsed raises and leaves no path.
PotentialCitationPath(raw) ==
    IF raw = Unreadable THEN [ ok |-> FALSE ]
    ELSE [ ok      |-> TRUE,
           book_id |-> SanitizeTitle(IF raw = NoFile THEN PdfStem
                                     ELSE raw.metadata.title) ]

\* CacheHit as it would be if the cache check were left out.
CacheHitNever(raw, citation) == FALSE

\* "if potential_citation_path and potential_citation_path.exists()"
CacheHit(raw, citation) ==
    /\ PotentialCitationPath(raw).ok
    /\ PotentialCitationPath(raw).book_id = BookId
    /\ citation # NoFile

\* The pipeline stands at `at` and no stage function is running.
PipelineAt(at) == pipeline.pc = at /\ pc = "idle"

\* A file is put at, or taken from, INPUT_DIR/<pdf_filename>.
UploadPdf ==
    /\ PipelineAt("idle")
    /\ \E pdf \in BookPdfs \cup {CorruptPdf, NoFile} :
        /\ pdf # input_pdf
        /\ input_pdf' = pdf
    /\ UNCHANGED << raw_cache, citation_file, disk_vars, run_vars, pipeline,
                    resolved, chunked, other >>

\* run_full_pipeline up to the cache check.
PipelineStart ==
    /\ PipelineAt("idle")
    /\ pipeline' = [ pc                |-> IF CacheHit(raw_cache, citation_file)
                                           THEN "stage3" ELSE "stage1",
                     started           |-> << >>,
                     cache_hit         |-> CacheHit(raw_cache, citation_file),
                     raw_at_start      |-> raw_cache,
                     citation_at_start |-> citation_file ]
    /\ UNCHANGED << raw_cache, citation_file, disk_vars, run_vars, input_pdf,
                    resolved, chunked, other >>

\* process_pdf: the file is not there, or fitz cannot open it; the pipeline
\* logs HALTED and returns.
Stage1Fails ==
    /\ PipelineAt("stage1")
    /\ input_pdf \in {NoFile, CorruptPdf}
    /\ pipeline' = [ pipeline EXCEPT !.pc = "halted",
                                     !.started = Append(@, "extraction") ]
    /\ UNCHANGED << raw_cache, citation_file, disk_vars, run_vars, input_pdf,
                    resolved, chunked, other >>

\* process_pdf has read the PDF and opens the raw cache for writing.
Stage1Open ==
    /\ PipelineAt("stage1")
    /\ input_pdf \in BookPdfs
    /\ raw_cache' = Unreadable
    /\ pipeline' = [ pipeline EXCEPT !.pc = "stage1_dump",
                                     !.started = Append(@, "extraction") ]
    /\ UNCHANGED << citation_file, disk_vars, run_vars, input_pdf, resolved,
                    chunked, other >>

\* json.dump(output_data, f) of process_pdf, which returns the cache path.
Stage1Dump ==
    /\ PipelineAt("stage1_dump")
    /\ raw_cache' = ProcessPdf(input_pdf)
    /\ pipeline' = [ pipeline EXCEPT !.pc = "stage2" ]
    /\ UNCHANGED << citation_file, disk_vars, run_vars, input_pdf, resolved,
                    chunked, other >>

\* json.dump of process_pdf raises: None is returned and the pipeline halts.
Stage1DumpFails ==
    /\ PipelineAt("stage1_dump")
    /\ pipeline' = [ pipeline EXCEPT !.pc = "halted" ]
    /\ UNCHANGED << raw_cache, citation_file, disk_vars, run_vars, input_pdf,
                    resolved, chunked, other >>

\* prepare_tts_chunks_with_citations has chunked the raw cache and opens the
\* CitationManifest for writing.
Stage2Open ==
    /\ PipelineAt("stage2")
    /\ citation_file' = Unreadable
    /\ pipeline' = [ pipeline EXCEPT !.pc = "stage2_dump",
                                     !.started = Append(@, "chunking") ]
    /\ UNCHANGED << raw_cache, disk_vars, run_vars, input_pdf, resolved,
                    chunked, other >>

\* open(citation_path, 'w') raises: None is returned and the pipeline halts.
Stage2OpenFails ==
    /\ PipelineAt("stage2")
    /\ pipeline' = [ pipeline EXCEPT !.pc = "halted",
                                     !.started = Append(@, "chunking") ]
    /\ UNCHANGED << raw_cache, citation_file, disk_vars, run_vars, input_pdf,
                    resolved, chunked, other >>

\* json.dump(output_data, f) of Stage 2, which returns the citation path.
Stage2Dump ==
    /\ PipelineAt("stage2_dump")
    /\ citation_file' = CitationManifestOf(raw_cache)
    /\ pipeline' = [ pipeline EXCEPT !.pc = "stage3" ]
    /\ UNCHANGED << raw_cache, disk_vars, run_vars, input_pdf, resolved,
                    chunked, other >>

\* json.dump of Stage 2 raises: None is returned and the pipeline halts.
Stage2DumpFails ==
    /\ PipelineAt("stage2_dump")
    /\ pipeline' = [ pipeline EXCEPT !.pc = "halted" ]
    /\ UNCHANGED << raw_cache, citation_file, disk_vars, run_vars, input_pdf,
                    resolved, chunked, other >>

\* "if citation_path: await generate_audio_streaming(citation_path)"
PipelineCallsStage3 ==
    /\ PipelineAt("stage3")
    /\ pipeline' = [ pipeline EXCEPT !.pc = "generating",
                                     !.started = Append(@, "generation") ]
    /\ UNCHANGED << raw_cache, citation_file, disk_vars, run_vars, input_pdf,
                    resolved, chunked, other >>

\* The call made by the pipeline: no limit.
PipelineGenStart == pipeline.pc = "generating" /\ GenStartWith(NoLimit)

PipelineGenHardStop == pipeline.pc = "generating" /\ GenHardStop

PipelineGenCitationUnreadable == pipeline.pc = "generating" /\ GenCitationUnreadable

\* generate_audio_streaming has returned, audio_dir or None: the value is
\* not looked at, and the pipeline logs FINISHED.
PipelineFinish ==
    /\ pipeline.pc = "generating"
    /\ pc \in {"done", "halted", "nofile"}
    /\ pipeline' = [ pipeline EXCEPT !.pc = "finished" ]
    /\ UNCHANGED << raw_cache, citation_file, disk_vars, run_vars, input_pdf,
                    resolved, chunked, other >>

\* The exception of generate_audio_streaming leaves run_full_pipeline too.
PipelineRaises ==
    /\ pipeline.pc = "generating"
    /\ pc = "raised"
    /\ pipeline' = [ pipeline EXCEPT !.pc = "raised" ]
    /\ UNCHANGED << raw_cache, citation_file, disk_vars, run_vars, input_pdf,
                    resolved, chunked, other >>

\* The process is stopped between two steps of Stage 1 and Stage 2.
PipelineCrash ==
    /\ pipeline.pc \in {"stage1", "stage1_dump", "stage2", "stage2_dump", "stage3"}
    /\ pc = "idle"
    /\ pipeline' = [ pipeline EXCEPT !.pc = "stopped" ]
    /\ UNCHANGED << raw_cache, citation_file, disk_vars, run_vars, input_pdf,
                    resolved, chunked, other >>

\* The background task is over (or the process is restarted): the next run
\* starts from the files alone.
PipelineReturn ==
    /\ \/ pipeline.pc \in {"finished", "halted", "raised", "stopped"}
       \/ pc = "stopped"
    /\ pipeline' = IdlePipeline
    /\ pc' = "idle"
    /\ data' = NoFile
    /\ manifest' = NoFile
    /\ chunks_to_process' = << >>
    /\ idx' = 1
    /\ requests' = << >>
    /\ writes' = << >>
    /\ failed' = {}
    /\ files_at_start' = {}
    /\ ledger_at_start' = NoFile
    /\ run_limit' = NoLimit
    /\ UNCHANGED << raw_cache, citation_file, disk_vars, input_pdf, resolved,
                    chunked, other >>

\* ------------------------------------------------------------------------
\* Specifications
\* ------------------------------------------------------------------------

\* A fresh deployment: no cache, no audio, no ledger.
Init ==
    /\ raw_cache = NoFile
    /\ citation_file = NoFile
    /\ audio_files = {}
    /\ ledger_file = NoFile
    /\ durable = << >>
    /\ input_pdf = NoFile
    /\ pipeline = IdlePipeline
    /\ resolved = NotResolved
    /\ chunked = NotChunked
    /\ other = NoOther
    /\ EmptyRun

Next ==
    \/ ExtractAndChunk
    \/ GenNoCitation
    \/ GenHardStop
    \/ GenStart
    \/ LoopSkip
    \/ LoopHeal
    \/ DumpLedger
    \/ LoopPost
    \/ SynthSuccess
    \/ SynthFailure
    \/ RecordReady
    \/ LoopEnd
    \/ Crash
    \/ Return

Spec == Init /\ [][Next]_vars

\* The pipeline on one PDF file name, with the stops and the write failures
\* of its stages.
NextPipeline ==
    \/ UploadPdf
    \/ PipelineStart
    \/ Stage1Fails
    \/ Stage1Open
    \/ Stage1Dump
    \/ Stage1DumpFails
    \/ Stage2Open
    \/ Stage2OpenFails
    \/ Stage2Dump
    \/ Stage2DumpFails
    \/ PipelineCallsStage3
    \/ PipelineGenStart
    \/ PipelineGenHardStop
    \/ PipelineGenCitationUnreadable
    \/ LoopSkip
    \/ LoopHeal
    \/ DumpLedger
    \/ LoopPost
    \/ SynthSuccess
    \/ SynthFailure
    \/ RecordReady
    \/ LoopEnd
    \/ Crash
    \/ PipelineFinish
    \/ PipelineRaises
    \/ PipelineCrash
    \/ PipelineReturn

SpecPipeline == Init /\ [][NextPipeline]_vars

\* A step of a generate_audio_streaming call that is under way.  The code
\* between two awaits runs on, and the POST is awaited with timeout=300.0:
\* it returns a response or raises.
RunStep ==
    \/ LoopSkip
    \/ LoopHeal
    \/ DumpLedger
    \/ LoopPost
    \/ SynthSuccess
    \/ SynthFailure
    \/ RecordReady
    \/ LoopEnd

\* Spec, where a call under way goes on unless the process is stopped.
SpecLive == Init /\ [][Next]_vars /\ WF_vars(RunStep)

\* Stage 2 alone, on every raw cache within the bounds.
InitChunk ==
    /\ raw_cache \in DocsOver(BlockTexts) \cup DocsOver(LongBlockTexts)
    /\ citation_file = NoFile
    /\ audio_files = {}
    /\ ledger_file = NoFile
    /\ durable = << >>
    /\ input_pdf = NoFile
    /\ pipeline = IdlePipeline
    /\ resolved = NotResolved
    /\ chunked = NotChunked
    /\ other = NoOther
    /\ EmptyRun

NextChunk == PrepareChunks

SpecChunk == InitChunk /\ [][NextChunk]_vars

\* Stage 2 and the lookup, on the raw caches of shorter blocks.
InitResolve ==
    /\ raw_cache \in DocsOver(ResolveTexts) \cup DocsOver(LongBlockTexts)
    /\ citation_file = NoFile
    /\ audio_files = {}
    /\ ledger_file = NoFile
    /\ durable = << >>
    /\ input_pdf = NoFile
    /\ pipeline = IdlePipeline
    /\ resolved = NotResolved
    /\ chunked = NotChunked
    /\ other = NoOther
    /\ EmptyRun

NextResolve == PrepareChunks \/ GetCitationAtTimestamp

SpecResolve == InitResolve /\ [][NextResolve]_vars

\* Stage 2 and the citation endpoint, on the raw caches of the longer blocks.
InitCitation ==
    /\ raw_cache \in DocsOver(LongBlockTexts)
    /\ citation_file = NoFile
    /\ audio_files = {}
    /\ ledger_file = NoFile
    /\ durable = << >>
    /\ input_pdf = NoFile
    /\ pipeline = IdlePipeline
    /\ resolved = NotResolved
    /\ chunked = NotChunked
    /\ other = NoOther
    /\ EmptyRun

NextCitation == PrepareChunks \/ GetCitation

SpecCitation == InitCitation /\ [][NextCitation]_vars

\* Two runs of Stage 3 on one book, the second started while the first is
\* suspended; the process is not stopped and the book is chunked once.
NextConcurrent ==
    \/ ( citation_file = NoFile /\ ExtractAndChunk )
    \/ GenStartWith(NoLimit)
    \/ LoopSkip
    \/ LoopHeal
    \/ DumpLedger
    \/ LoopPost
    \/ SynthSuccess
    \/ SynthFailure
    \/ RecordReady
    \/ LoopEnd
    \/ Return
    \/ OtherStart
    \/ OtherSynthSuccess
    \/ OtherSynthFailure

SpecConcurrent == Init /\ [][NextConcurrent]_vars

\* r without its key `key`.
WithoutKey(r, key) == [ k \in DOMAIN r \ {key} |-> r[k] ]

\* The cache files of a document that Stage 2 cannot take: one that
\* json.load cannot parse, and the document without one of the keys Stage 2
\* reads, at the top or in one of its pages.
BrokenCachesOf(d) ==
    { Unreadable, WithoutKey(d, "content"), WithoutKey(d, "metadata") }
        \cup { [ d EXCEPT !.content[k] = WithoutKey(@, key) ] :
                 k \in 1 .. Len(d.content), key \in {"page_number", "text_blocks"} }

\* Stage 2 alone, on a cache file that may be missing or broken.
InitChunkErr ==
    /\ raw_cache \in {NoFile} \cup DocsOver(LongBlockTexts)
                      \cup UNION { BrokenCachesOf(d) : d \in DocsOver(LongBlockTexts) }
    /\ citation_file = NoFile
    /\ audio_files = {}
    /\ ledger_file = NoFile
    /\ durable = << >>
    /\ input_pdf = NoFile
    /\ pipeline = IdlePipeline
    /\ resolved = NotResolved
    /\ chunked = NotChunked
    /\ other = NoOther
    /\ EmptyRun

NextChunkErr ==
    \/ PrepareChunks
    \/ PrepareChunksNoCache
    \/ PrepareChunksRaises
    \/ PrepareChunksKeyError

SpecChunkErr == InitChunkErr /\ [][NextChunkErr]_vars

\* ------------------------------------------------------------------------
\* Properties of the CitationManifest (Stage 2)
\* ------------------------------------------------------------------------

\* The list order of the chunks is their chunk_id order.
InChunkIdOrder(chunks) ==
    \A i \in 1 .. Len(chunks) : \A j \in 1 .. Len(chunks) :
        i < j => chunks[i].chunk_id < chunks[j].chunk_id

TimeAxisContiguous(chunks) ==
    /\ InChunkIdOrder(chunks)
    /\ chunks # << >> => chunks[1].start_time = 0
    /\ \A i \in 1 .. Len(chunks) :
        chunks[i].end_time = chunks[i].start_time + chunks[i].duration_seconds
    /\ \A i \in 1 .. Len(chunks) - 1 :
        /\ chunks[i].end_time = chunks[i + 1].start_time
        /\ chunks[i].start_time <= chunks[i + 1].start_time

\* C1: in every CitationManifest written by prepare_tts_chunks_with_citations
\* the first chunk starts at time 0, every chunk ends at its start plus its
\* duration, and each chunk ends exactly where the next one (in chunk_id
\* order) starts, across block and page boundaries too; so start_time never
\* decreases with chunk_id.
C1_TimeAxisContiguous ==
    citation_file # NoFile => TimeAxisContiguous(citation_file.chunks)

\* A manifest of three chunks or more, two of them from one block and two
\* of them on different pages, all of positive duration.
C1_Witness ==
    /\ citation_file # NoFile
    /\ Len(citation_file.chunks) >= 3
    /\ \A i \in 1 .. Len(citation_file.chunks) :
        citation_file.chunks[i].duration_seconds > 0
    /\ \E i \in 1 .. Len(citation_file.chunks) - 1 :
        /\ citation_file.chunks[i].page = citation_file.chunks[i + 1].page
        /\ citation_file.chunks[i].block_index = citation_file.chunks[i + 1].block_index
    /\ \E i \in 1 .. Len(citation_file.chunks) - 1 :
        citation_file.chunks[i].page # citation_file.chunks[i + 1].page

\* The global_index values met when the chunks are traversed in list order
\* and the sentences of each chunk in list order.
RECURSIVE GlobalIndexes(_)
GlobalIndexes(chunks) ==
    IF chunks = << >> THEN << >>
    ELSE [ k \in 1 .. Len(Head(chunks).sentences) |->
             Head(chunks).sentences[k].global_index ]
         \o GlobalIndexes(Tail(chunks))

\* C2: traversed in chunk_id order and, within a chunk, in sentence order,
\* the global_index values of a written CitationManifest are 0, 1, 2, ...
\* without gap or repeat, whatever the block, page and chunk boundaries, and
\* the last one is total_sentences - 1.
C2_GlobalIndexDense ==
    citation_file # NoFile =>
        LET g == GlobalIndexes(citation_file.chunks)
        IN  /\ InChunkIdOrder(citation_file.chunks)
            /\ \A k \in 1 .. Len(g) : g[k] = k - 1
            /\ Len(g) = citation_file.processing.total_sentences

\* A manifest with a chunk of two sentences, two chunks cut from one block
\* and chunks of two different blocks.
C2_Witness ==
    /\ citation_file # NoFile
    /\ citation_file.processing.total_sentences >= 4
    /\ \E i \in 1 .. Len(citation_file.chunks) :
        Len(citation_file.chunks[i].sentences) >= 2
    /\ \E i \in 1 .. Len(citation_file.chunks) - 1 :
        /\ citation_file.chunks[i].page = citation_file.chunks[i + 1].page
        /\ citation_file.chunks[i].block_index = citation_file.chunks[i + 1].block_index
    /\ \E i \in 1 .. Len(citation_file.chunks) - 1 :
        << citation_file.chunks[i].page, citation_file.chunks[i].block_index >>
            # << citation_file.chunks[i + 1].page, citation_file.chunks[i + 1].block_index >>

\* The sentences of a block as the chunker should see them: the pieces of
\* the split, stripped, without the empty ones.
BlockSentencesOf(block_text) ==
    LET pieces == SplitSentences(block_text)
    IN  SelectSeq([ i \in 1 .. Len(pieces) |-> Strip(pieces[i]) ],
                  LAMBDA piece : piece # << >>)

\* The blocks of one page, from the k-th on, with page number and 1-based
\* ordinal.
RECURSIVE BlocksOfPage(_, _)
BlocksOfPage(page, k) ==
    IF k > Len(page.text_blocks) THEN << >>
    ELSE << [ page        |-> page.page_number,
              block_index |-> k,
              sentences   |-> BlockSentencesOf(page.text_blocks[k]) ] >>
         \o BlocksOfPage(page, k + 1)

\* The blocks of a raw cache in reading order.
RECURSIVE AllBlocks(_)
AllBlocks(content) ==
    IF content = << >> THEN << >>
    ELSE BlocksOfPage(Head(content), 1) \o AllBlocks(Tail(content))

\* The number of sentences in a sequence of blocks.
RECURSIVE CountSentences(_)
CountSentences(blocks) ==
    IF blocks = << >> THEN 0
    ELSE Len(Head(blocks).sentences) + CountSentences(Tail(blocks))

\* The texts of the sentences of a sequence of chunks, in list order.
RECURSIVE SentenceTexts(_)
SentenceTexts(chunks) ==
    IF chunks = << >> THEN << >>
    ELSE [ k \in 1 .. Len(Head(chunks).sentences) |-> Head(chunks).sentences[k].text ]
         \o SentenceTexts(Tail(chunks))

\* The chunks emitted for a block, in list order.
ChunksOfBlock(chunks, block) ==
    SelectSeq(chunks, LAMBDA c : c.page = block.page
                                 /\ c.block_index = block.block_index)

\* C14: chunking drops, repeats, reorders and truncates no sentence: for
\* every block of the raw cache, the sentences of the chunks emitted for it,
\* taken in order, are the non-empty sentences of the block in order, each
\* chunk's text is its sentences joined by single spaces, and no chunk
\* belongs to no block; a sentence that alone reaches max_chars included.
C14_NoSentenceLost ==
    citation_file # NoFile =>
        LET blocks == AllBlocks(raw_cache.content)
            chunks == citation_file.chunks
        IN  /\ \A q \in 1 .. Len(blocks) :
                SentenceTexts(ChunksOfBlock(chunks, blocks[q])) = blocks[q].sentences
            /\ \A k \in 1 .. Len(chunks) :
                /\ chunks[k].text = JoinSpace(SentenceTexts(<< chunks[k] >>))
                /\ \E q \in 1 .. Len(blocks) :
                    /\ chunks[k].page = blocks[q].page
                    /\ chunks[k].block_index = blocks[q].block_index
            /\ citation_file.processing.total_sentences = CountSentences(blocks)

\* A block of three sentences whose second alone reaches max_chars has been
\* chunked, and so has a block that begins with such a sentence.
C14_Witness ==
    /\ citation_file # NoFile
    /\ \E q \in 1 .. Len(AllBlocks(raw_cache.content)) :
        LET block == AllBlocks(raw_cache.content)[q]
        IN  /\ Len(block.sentences) = 3
            /\ Len(block.sentences[2]) + 1 >= max_chars
            /\ Len(ChunksOfBlock(citation_file.chunks, block)) = 3
    /\ \E q \in 1 .. Len(AllBlocks(raw_cache.content)) :
        LET block == AllBlocks(raw_cache.content)[q]
        IN  /\ Len(block.sentences) = 2
            /\ Len(block.sentences[1]) + 1 >= max_chars

\* What a chunk counts against max_chars: len(sentence) + 1 per sentence.
RECURSIVE Charge(_)
Charge(sentences) ==
    IF sentences = << >> THEN 0
    ELSE Len(Head(sentences).text) + 1 + Charge(Tail(sentences))

\* C15: every emitted chunk of two sentences or more counts less than
\* max_chars (its text is shorter than max_chars - 1), so only a chunk of one
\* sentence reaches the limit; and a chunk followed by another chunk of the
\* same block could not have taken that chunk's first sentence.
C15_ChunkSizeBound ==
    citation_file # NoFile =>
        LET chunks == citation_file.chunks
        IN  /\ \A k \in 1 .. Len(chunks) :
                /\ Len(chunks[k].sentences) >= 1
                /\ Len(chunks[k].sentences) >= 2 =>
                    /\ Charge(chunks[k].sentences) < max_chars
                    /\ Len(chunks[k].text) < max_chars - 1
                /\ Charge(chunks[k].sentences) >= max_chars =>
                    Len(chunks[k].sentences) = 1
            /\ \A k \in 1 .. Len(chunks) - 1 :
                ( /\ chunks[k].page = chunks[k + 1].page
                  /\ chunks[k].block_index = chunks[k + 1].block_index )
                => Charge(chunks[k].sentences)
                       + Len(chunks[k + 1].sentences[1].text) + 1 >= max_chars

\* A chunk of two sentences is followed by a chunk of the same block, and
\* some chunk of one sentence reaches max_chars.
C15_Witness ==
    /\ citation_file # NoFile
    /\ \E k \in 1 .. Len(citation_file.chunks) - 1 :
        /\ Len(citation_file.chunks[k].sentences) >= 2
        /\ citation_file.chunks[k].page = citation_file.chunks[k + 1].page
        /\ citation_file.chunks[k].block_index = citation_file.chunks[k + 1].block_index
    /\ \E k \in 1 .. Len(citation_file.chunks) :
        Charge(citation_file.chunks[k].sentences) >= max_chars

\* C16: every sentence of an emitted chunk is a sentence of the one block the
\* chunk names by page and block_index (by its global_index, which counts
\* the sentences of the raw cache in reading order), and the k-th chunk of
\* the list has chunk_id k - 1.
C16_NoChunkSpansBlocks ==
    citation_file # NoFile =>
        LET blocks == AllBlocks(raw_cache.content)
            chunks == citation_file.chunks
        IN  \A k \in 1 .. Len(chunks) :
                /\ chunks[k].chunk_id = k - 1
                /\ \E q \in 1 .. Len(blocks) :
                    LET first == CountSentences(SubSeq(blocks, 1, q - 1))
                    IN  /\ chunks[k].page = blocks[q].page
                        /\ chunks[k].block_index = blocks[q].block_index
                        /\ \A j \in 1 .. Len(chunks[k].sentences) :
                            LET g == chunks[k].sentences[j].global_index
                            IN  /\ first <= g
                                /\ g < first + Len(blocks[q].sentences)
                                /\ chunks[k].sentences[j].text
                                       = blocks[q].sentences[g - first + 1]

\* Two blocks of one page that together stay under max_chars have been
\* chunked into two chunks.
C16_Witness ==
    /\ citation_file # NoFile
    /\ Len(raw_cache.content) = 1
    /\ Len(raw_cache.content[1].text_blocks) = 2
    /\ Len(raw_cache.content[1].text_blocks[1])
           + Len(raw_cache.content[1].text_blocks[2]) + 2 < max_chars
    /\ Len(citation_file.chunks) = 2
    /\ citation_file.chunks[1].block_index = 1
    /\ citation_file.chunks[2].block_index = 2

\* ------------------------------------------------------------------------
\* Properties of Segment Generation (Stage 3)
\* ------------------------------------------------------------------------

IsLedger(ledger) == ledger # NoFile /\ ledger # Unreadable

\* The ready-chunk records a ledger file holds.
ReadyOf(ledger) == IF IsLedger(ledger) THEN ledger.ready_chunks ELSE << >>

ReadySet(ready_chunks) == { ready_chunks[k] : k \in 1 .. Len(ready_chunks) }

ReadyIds(ready_chunks) == { ready_chunks[k].chunk_id : k \in 1 .. Len(ready_chunks) }

ChunkSet(chunks) == { chunks[k] : k \in 1 .. Len(chunks) }

ChunkIds(chunks) == { chunks[k].chunk_id : k \in 1 .. Len(chunks) }

AudioPath(chunk) == AudioFilename(chunk.chunk_id, chunk.page)

\* Unique by chunk_id and ascending.
SortedById(ready_chunks) ==
    \A i \in 1 .. Len(ready_chunks) : \A j \in 1 .. Len(ready_chunks) :
        i < j => ready_chunks[i].chunk_id < ready_chunks[j].chunk_id

\* The chunks the loop has left behind.
Handled == { chunks_to_process[k] : k \in 1 .. idx - 1 }

\* The run covers the whole manifest.
WholeManifest == chunks_to_process = data.chunks

C4_CrashSafe ==
    pc = "stopped" =>
        /\ ledger_file # Unreadable
        /\ ReadySet(durable) \subseteq ReadySet(ReadyOf(ledger_file))

FailuresLeaveNothing ==
    pc = "done" =>
        /\ idx = Len(chunks_to_process) + 1
        /\ \A c \in ChunkSet(chunks_to_process) :
            /\ c.chunk_id \in failed =>
                /\ AudioPath(c) \notin audio_files
                /\ c.chunk_id \notin ReadyIds(ReadyOf(ledger_file))
            /\ \/ \E k \in 1 .. Len(requests) : requests[k] = c.chunk_id
               \/ AudioPath(c) \in files_at_start
               \/ c.chunk_id \in ReadyIds(ReadyOf(ledger_at_start))
        /\ IsLedger(ledger_file) /\ writes # << >> =>
            /\ ledger_file.total_chunks = Len(data.chunks)
            /\ Cardinality(ReadyIds(ReadyOf(ledger_file)) \cap ChunkIds(chunks_to_process))
                 <= Len(chunks_to_process) - Cardinality(failed)

\* The step in which a synthesis fails touches no file and goes to the next
\* chunk.
FailureStep ==
    (failed # failed' /\ failed \subseteq failed') =>
        /\ audio_files' = audio_files
        /\ ledger_file' = ledger_file
        /\ manifest' = manifest
        /\ idx' = idx + 1
        /\ pc' = "loop"

\* C6: a synthesis failure for one chunk is not fatal: the chunk ends the
\* run without audio file and without ledger record, the step leaves the
\* files and the ledger as they are, and the run goes on with the next chunk
\* until every chunk has been visited.
C6_FailureNonFatal == []FailuresLeaveNothing /\ [][FailureStep]_vars

\* A finished run of three chunks in which the second failed and the first
\* and the third were synthesized and recorded.
C6_Witness ==
    /\ pc = "done"
    /\ Len(chunks_to_process) = 3
    /\ failed = {1}
    /\ requests = << 0, 1, 2 >>
    /\ ReadyIds(ReadyOf(ledger_file)) = {0, 2}
    /\ ledger_file.total_chunks = 3

\* C7: a run that finds an existing ledger it cannot read returns at once:
\* no synthesis request, no audio file written, no write to the ledger file.
C7_HardStop ==
    (pc # "idle" /\ ledger_at_start = Unreadable) =>
        /\ pc = "halted"
        /\ requests = << >>
        /\ writes = << >>
        /\ audio_files = files_at_start
        /\ ledger_file = ledger_at_start

\* A run has returned on an unreadable ledger while chunks lack their audio.
C7_Witness ==
    /\ pc = "halted"
    /\ ledger_at_start = Unreadable
    /\ \E c \in ChunkSet(data.chunks) : AudioPath(c) \notin audio_files

\* C8: after a run over the whole manifest, a chunk's audio file exists at
\* its output path exactly when the ledger on disk lists its chunk_id.
C8_LedgerMatchesDisk ==
    (pc = "done" /\ WholeManifest) =>
        \A c \in ChunkSet(data.chunks) :
            AudioPath(c) \in audio_files
                <=> c.chunk_id \in ReadyIds(ReadyOf(ledger_file))

\* C9: every ledger the stage has written is unique by chunk_id and sorted
\* ascending by chunk_id.
C9_LedgerSorted ==
    IsLedger(ledger_file) => SortedById(ledger_file.ready_chunks)

\* A record was added in front of a record the run started from.
C9_Witness ==
    /\ IsLedger(ledger_file)
    /\ IsLedger(ledger_at_start)
    /\ \E r \in ReadySet(ledger_file.ready_chunks) \ ReadySet(ReadyOf(ledger_at_start)) :
        \E q \in ReadySet(ReadyOf(ledger_at_start)) : r.chunk_id < q.chunk_id

\* C10: a chunk whose audio file exists or whose chunk_id the ledger lists
\* gets no synthesis request and its file is not written again; no chunk gets
\* two requests in one run.
C10_IdempotentSkip ==
    /\ \A k \in 1 .. Len(requests) :
        /\ requests[k] \notin ReadyIds(ReadyOf(ledger_at_start))
        /\ \A c \in ChunkSet(chunks_to_process) :
            c.chunk_id = requests[k] => AudioPath(c) \notin files_at_start
        /\ \A j \in 1 .. Len(requests) : j # k => requests[j] # requests[k]
    /\ \A k \in 1 .. Len(writes) :
        writes[k] # LedgerPath =>
            /\ writes[k] \notin files_at_start
            /\ \A j \in 1 .. Len(writes) : j # k => writes[j] # writes[k]

\* A finished run has skipped a chunk with a file, skipped a chunk the ledger
\* listed, and synthesized another.
C10_Witness ==
    /\ pc = "done"
    /\ requests # << >>
    /\ \E c \in ChunkSet(chunks_to_process) : AudioPath(c) \in files_at_start
    /\ \E c \in ChunkSet(chunks_to_process) :
        /\ c.chunk_id \in ReadyIds(ReadyOf(ledger_at_start))
        /\ AudioPath(c) \notin files_at_start

\* ------------------------------------------------------------------------
\* Properties of the lookup
\* ------------------------------------------------------------------------

\* The chunks of the manifest on disk (none without a manifest).
ManifestChunks == IF citation_file = NoFile THEN << >> ELSE citation_file.chunks

\* The positions of the chunks whose interval [start_time, end_time) holds
\* the timestamp.
Covering(chunks, ticks) ==
    { k \in 1 .. Len(chunks) :
        /\ chunks[k].start_time * TicksPerUnit <= ticks
        /\ ticks < chunks[k].end_time * TicksPerUnit }

\* The end of the time axis of the chunks, in ticks.
EndOfAxis(chunks) ==
    IF chunks = << >> THEN 0 ELSE chunks[Len(chunks)].end_time * TicksPerUnit

\* What a lookup step answers, against the manifest it read.
ResolvesCoveringChunk ==
    resolved' # resolved =>
        LET ticks  == resolved'.timestamp
            answer == resolved'.answer
            chunks == ManifestChunks
            hits   == Covering(chunks, ticks)
        IN  /\ Cardinality(hits) <= 1
            /\ answer.found <=> hits # {}
            /\ answer.found =>
                \A k \in hits :
                    /\ answer.page = chunks[k].page
                    /\ answer.block = chunks[k].block_index
                    /\ \E j \in 1 .. Len(chunks[k].sentences) :
                        answer.sentence_text = chunks[k].sentences[j].text
            /\ (0 <= ticks /\ ticks < EndOfAxis(chunks)) => answer.found
            /\ (chunks # << >> =>
                  EndOfAxis(chunks) = citation_file.processing.
                      total_estimated_duration_seconds * TicksPerUnit)
            /\ (chunks = << >> \/ ticks >= EndOfAxis(chunks)) => ~answer.found

\* C11: get_citation_at_timestamp answers with the citation of the one chunk
\* whose half-open interval [start_time, end_time) holds the timestamp: every
\* timestamp from 0 up to, and not including, the total estimated duration
\* lies in exactly one chunk and is found, and a timestamp at or beyond the
\* end of the last chunk, or any timestamp on an empty or absent manifest,
\* is not found.
C11_ResolvesCoveringChunk == [][ResolvesCoveringChunk]_vars

\* A lookup at the instant where the first chunk ends and the second, on
\* another page, begins has answered with the second chunk.
C11_Witness ==
    /\ resolved.called
    /\ Len(ManifestChunks) >= 2
    /\ ManifestChunks[1].page # ManifestChunks[2].page
    /\ resolved.timestamp = ManifestChunks[2].start_time * TicksPerUnit
    /\ resolved.answer.found
    /\ resolved.answer.page = ManifestChunks[2].page

\* The sentence a lookup step answers with, against the manifest and the raw
\* cache: i is the index of the claim when i <= progress * count < i + 1.
ResolvesSentence ==
    (resolved' # resolved /\ resolved'.answer.found) =>
        LET ticks  == resolved'.timestamp
            answer == resolved'.answer
        IN  \A k \in Covering(ManifestChunks, ticks) :
                LET chunk    == ManifestChunks[k]
                    count    == Len(chunk.sentences)
                    into     == ticks - chunk.start_time * TicksPerUnit
                    duration == chunk.duration_seconds * TicksPerUnit
                    i        == answer.sentence_in_block - 1
                IN  /\ i \in 0 .. count - 1
                    /\ duration > 0
                    /\ i * duration <= into * count
                    /\ into * count < (i + 1) * duration
                    /\ answer.sentence_text = chunk.sentences[i + 1].text
                    /\ \E n \in 1 .. Len(raw_cache.content) :
                        LET page == raw_cache.content[n]
                        IN  /\ page.page_number = answer.page
                            /\ answer.block \in 1 .. Len(page.text_blocks)
                            /\ \E m \in 1 .. Len(SplitSentences(page.text_blocks[answer.block])) :
                                Strip(SplitSentences(page.text_blocks[answer.block])[m])
                                    = answer.sentence_text

\* C12: on a matching chunk the sentence answered is the one at index
\* floor(((timestamp - start_time) / duration_seconds) * sentence_count),
\* which lies in [0, sentence_count - 1]; the block ordinal answered is the
\* 1-based position of the block in its page and the sentence position
\* answered is the 1-based position of the sentence in the chunk.
C12_ResolvesSentence == [][ResolvesSentence]_vars

\* A lookup has answered with the second sentence of a chunk that is not the
\* first chunk of the manifest.
C12_Witness ==
    /\ resolved.called
    /\ resolved.answer.found
    /\ resolved.answer.sentence_in_block = 2
    /\ \E k \in Covering(ManifestChunks, resolved.timestamp) :
        /\ k > 1
        /\ Len(ManifestChunks[k].sentences) = 2

\* C28: resolution is monotone in time.  For the timestamp of a lookup that
\* resolved and every earlier timestamp that resolves on the same manifest,
\* the (chunk_id, sentence position in the chunk) of the earlier one is
\* lexicographically not greater, and the global_index of its sentence is
\* not greater.
C28_MonotoneInTime ==
    ( resolved.called /\ resolved.answer.found ) =>
        LET later == ScanPosition(ManifestChunks, resolved.timestamp)
        IN  /\ later.found
            /\ resolved.answer.sentence_in_block
                   = later.sentence.sentence_in_block + 1
            /\ resolved.answer.sentence_text = SentenceText(later.sentence.text)
            /\ \A ticks \in Timestamps :
                   LET earlier == ScanPosition(ManifestChunks, ticks)
                   IN  ( ticks <= resolved.timestamp /\ earlier.found ) =>
                         /\ \/ earlier.chunk_id < later.chunk_id
                            \/ /\ earlier.chunk_id = later.chunk_id
                               /\ earlier.sentence_index <= later.sentence_index
                         /\ earlier.sentence.global_index
                                <= later.sentence.global_index

\* A lookup resolved to a sentence that is not the first of its chunk, in a
\* chunk that is not the first: earlier timestamps resolve to an earlier
\* sentence of the chunk and to an earlier chunk.
C28_Witness ==
    /\ resolved.called
    /\ resolved.answer.found
    /\ ScanPosition(ManifestChunks, resolved.timestamp).chunk_id >= 1
    /\ ScanPosition(ManifestChunks, resolved.timestamp).sentence_index >= 1

\* ------------------------------------------------------------------------
\* Properties of the orchestration
\* ------------------------------------------------------------------------

\* The stages a pipeline run may have started so far, in order.
StageOrders ==
    { << >>,
      << "extraction" >>,
      << "extraction", "chunking" >>,
      << "extraction", "chunking", "generation" >>,
      << "generation" >> }

Started(stage) == \E k \in 1 .. Len(pipeline.started) : pipeline.started[k] = stage

\* C17: Extraction precedes Chunking precedes Segment Generation; a run
\* halted by a failed Extraction or Chunking has started no later stage;
\* Segment Generation is never started without a citation manifest; and a
\* run halted by a failed Chunking has left no citation manifest written.
C17_StageOrderAndHalt ==
    /\ pipeline.started \in StageOrders
    /\ pipeline.pc = "halted" =>
        pipeline.started \in { << "extraction" >>, << "extraction", "chunking" >> }
    /\ Started("generation") => citation_file # NoFile
    /\ (pipeline.pc = "halted" /\ Started("chunking")) => citation_file = NoFile

\* The book id the cache check derives from the raw cache found at the start
\* (its title) or, without a raw cache, from the stem.
DerivedBookId(raw) ==
    SanitizeTitle(IF raw = NoFile THEN PdfStem ELSE raw.metadata.title)

\* A CitationManifest existed for the derived book id when the run started.
ManifestAtStart ==
    /\ pipeline.pc # "idle"
    /\ pipeline.raw_at_start # Unreadable
    /\ DerivedBookId(pipeline.raw_at_start) = BookId
    /\ pipeline.citation_at_start # NoFile

\* C18: a run that finds a CitationManifest for the derived book id starts
\* neither Extraction nor Chunking, leaves the raw cache and the
\* CitationManifest as they were and goes straight to Segment Generation;
\* and a run that finishes, cache hit or not, has started Segment Generation.
C18_CacheHitSkips ==
    /\ ManifestAtStart =>
        /\ ~Started("extraction")
        /\ ~Started("chunking")
        /\ raw_cache = pipeline.raw_at_start
        /\ citation_file = pipeline.citation_at_start
        /\ pipeline.pc \in {"stage3", "generating", "finished", "raised", "stopped"}
        /\ pipeline.pc \in {"generating", "finished", "raised"} =>
            pipeline.started = << "generation" >>
    /\ pipeline.pc = "finished" => Started("generation")

\* A run on a cache hit has finished after Segment Generation synthesized
\* chunks that an earlier run had left without audio.
C18_Witness ==
    /\ ManifestAtStart
    /\ pipeline.pc = "finished"
    /\ pc = "done"
    /\ requests # << >>
    /\ files_at_start # {}

\* C19: a run that finds a raw cache and no CitationManifest does not run
\* process_pdf and does not rewrite the raw cache, and the CitationManifest
\* it writes is the chunking of the raw cache it found.
C19_OnlyExtractionSkipped ==
    ( /\ pipeline.pc # "idle"
      /\ pipeline.raw_at_start # NoFile
      /\ pipeline.raw_at_start # Unreadable
      /\ pipeline.citation_at_start = NoFile )
    => /\ ~Started("extraction")
       /\ raw_cache = pipeline.raw_at_start
       /\ (citation_file # NoFile /\ citation_file # Unreadable) =>
            citation_file = CitationManifestOf(pipeline.raw_at_start)

\* C20: a pipeline run whose Segment Generation returned on an unreadable
\* ledger does not end as finished, and that stage has left the raw cache,
\* the citation manifest, the ledger and the audio files as they were.
C20_HardStopHaltsPipeline ==
    (pc = "halted" /\ pipeline.pc # "idle") =>
        /\ pipeline.pc # "finished"
        /\ audio_files = files_at_start
        /\ ledger_file = ledger_at_start
        /\ citation_file = data
        /\ raw_cache # NoFile /\ raw_cache # Unreadable

\* The file is a CitationManifest: a Chunking stage has succeeded.
IsManifest(citation) == citation # NoFile /\ citation # Unreadable

\* C30: once Extraction and Chunking have succeeded for the document, the
\* cache check of a later run derives the book id the Chunker used, and a
\* later run takes the cache-hit path, starts neither Extraction nor
\* Chunking and leaves the CitationManifest as it was.
C30_StableBookId ==
    /\ IsManifest(citation_file) =>
          /\ raw_cache # NoFile
          /\ PotentialCitationPath(raw_cache).ok
          /\ PotentialCitationPath(raw_cache).book_id = citation_file.book_id
          /\ citation_file = CitationManifestOf(raw_cache)
    /\ ( pipeline.pc # "idle" /\ IsManifest(pipeline.citation_at_start) ) =>
          /\ pipeline.cache_hit
          /\ ~Started("extraction")
          /\ ~Started("chunking")
          /\ citation_file = pipeline.citation_at_start

\* A later run on the same document has finished on the cache-hit path.
C30_Witness ==
    /\ pipeline.pc = "finished"
    /\ IsManifest(pipeline.citation_at_start)
    /\ input_pdf \in BookPdfs
    /\ ProcessPdf(input_pdf) = raw_cache
    /\ pipeline.started = << "generation" >>

\* ------------------------------------------------------------------------
\* Properties of Stage 2 on a cache it cannot take
\* ------------------------------------------------------------------------

\* C21: when the extraction cache cannot be parsed (malformed JSON) or lacks
\* a required key (content, page_number, text_blocks, metadata), Chunking
\* returns None instead of raising, and writes no CitationManifest.
C21_BrokenCacheReturnsNone ==
    ( raw_cache = Unreadable \/ ( raw_cache # NoFile /\ MissingKey(raw_cache) ) )
        => /\ chunked \in {NotChunked, "None"}
           /\ citation_file = NoFile

\* ------------------------------------------------------------------------
\* Properties of the citation endpoint
\* ------------------------------------------------------------------------

\* C22: get_citation for a book id that has no CitationManifest of its own
\* (an unknown id, one that sanitizes to the empty string, one that is a
\* part of another book's id) answers not-found: it never answers from the
\* manifest of a different book.
C22_UnknownBookNotFound ==
    ( resolved.called /\ SanitizeTitle(resolved.book_id) # BookId )
        => ~resolved.answer.found

\* The requests of the run whose chunk the loop has not yet left.
InFlight ==
    { k \in 1 .. Len(requests) :
        requests[k] \notin { c.chunk_id : c \in Handled } }

\* C26: within one run the chunks are handled one at a time in ascending
\* chunk_id order: the requests go out in strictly ascending order, the
\* request for a chunk goes out only when every earlier chunk of the range
\* has failed or has its record in the persisted ledger, and no two requests
\* are in flight at once.
C26_OneChunkAtATime ==
    /\ \A k \in 1 .. Len(requests) - 1 : requests[k] < requests[k + 1]
    /\ Cardinality(InFlight) <= 1
    /\ InFlight # {} => pc \in {"await", "record", "dump", "stopped"}
    /\ pc = "await" =>
          /\ requests[Len(requests)] = Chunk.chunk_id
          /\ \A c \in Handled :
                 /\ c.chunk_id < Chunk.chunk_id
                 /\ \/ c.chunk_id \in failed
                    \/ c.chunk_id \in ReadyIds(ReadyOf(ledger_file))

\* A request is in flight after an earlier chunk was skipped, one failed and
\* one was synthesized in the same run.
C26_Witness ==
    /\ pc = "await"
    /\ Len(requests) >= 2
    /\ failed # {}
    /\ \E c \in Handled : c.chunk_id \notin ReadyIds(ReadyOf(ledger_at_start))
                              /\ c.chunk_id \in ReadyIds(ReadyOf(ledger_file))
    /\ \E c \in Handled : \A k \in 1 .. Len(requests) : requests[k] # c.chunk_id

\* C27: a run given the limit n, for every n >= 0, handles at most the first
\* n chunks of the manifest: its range is that prefix, it sends no request
\* and writes no audio file beyond it, and the total_chunks of its ledger is
\* the number of chunks of the whole manifest.
C27_LimitBoundsRun ==
    ( pc \in Running \cup {"done", "stopped"} /\ run_limit # NoLimit ) =>
        LET first == Prefix(data.chunks, run_limit[1])
        IN  /\ chunks_to_process = first
            /\ \A k \in 1 .. Len(requests) : requests[k] \in ChunkIds(first)
            /\ \A k \in 1 .. Len(writes) :
                   writes[k] \in {LedgerPath}
                                   \cup { AudioPath(c) : c \in ChunkSet(first) }
            /\ manifest.total_chunks = Len(data.chunks)

\* C29: in every ledger state the pipeline runs reach, also after a
\* re-chunking that changes the number of chunks while an older ledger
\* exists, the ready records do not outnumber total_chunks (the progress is
\* at most 100 percent), and get_audiobook_status answers is_complete only
\* when every chunk of the current CitationManifest has a ready record.
C29_StatusSound ==
    AudiobookStatus(ledger_file).status_code = 200 =>
        LET status == AudiobookStatus(ledger_file)
        IN  /\ Len(status.ready_chunks) <= status.total_chunks
            /\ status.progress_percentage <= 1000
            /\ status.is_complete =>
                   /\ citation_file # NoFile
                   /\ ChunkIds(citation_file.chunks)
                          \subseteq ReadyIds(status.ready_chunks)

\* Every chunk of the range has been visited: it is in the ledger the run
\* holds (skipped as listed, repaired, or synthesized) or its synthesis failed.
AllVisited ==
    /\ idx = Len(chunks_to_process) + 1
    /\ ChunkIds(chunks_to_process)
           \subseteq failed \cup ReadyIds(manifest.ready_chunks)

\* C25: a run that has passed the ledger load returns after it has visited
\* every chunk of its range, whatever subset of them fails, unless the
\* process is stopped; the failure of one chunk does not end the run.
C25_RunTerminates ==
    (pc \in Running) ~> (pc = "stopped" \/ (pc = "done" /\ AllVisited))

\* A run has returned in which a chunk failed and a later one was requested.
C25_Witness ==
    /\ pc = "done"
    /\ AllVisited
    /\ \E k \in 1 .. Len(requests) :
           /\ requests[k] \in failed
           /\ k < Len(requests)

\* ------------------------------------------------------------------------
\* Properties of two runs on one book
\* ------------------------------------------------------------------------

\* No two runs of the book are under way at once.
OneRunAtATime == ~(pc \in Running /\ other.pc = "await")

\* Between two of its writes, the ledger file holds every record of the list
\* the first run has loaded and persisted.
NoRecordLost ==
    ( pc \in {"loop", "await", "done"} /\ IsLedger(ledger_file) )
        => ReadyIds(manifest.ready_chunks) \subseteq ReadyIds(ledger_file.ready_chunks)

\* C23: the runs of one book are serialized, so the load, append and persist
\* steps of two runs on its ledger never interleave, and no persisted record
\* is lost by one run overwriting the ledger of another.
C23_SingleWriter == OneRunAtATime /\ NoRecordLost

\* C24: runs for two different documents share no mutable state, also when
\* the documents have the same title: when the run for a document has
\* returned, the audio files and the ledger records of its book are those of
\* its own chunks, as they would be had no other document been processed.
C24_BooksIndependent ==
    pc = "done" =>
        /\ audio_files \subseteq { AudioPath(c) : c \in ChunkSet(data.chunks) }
        /\ ReadySet(ReadyOf(ledger_file))
               \subseteq { ReadyRecord(c) : c \in ChunkSet(data.chunks) }

====
